---- MODULE Spec2Model ----
(***************************************************************************)
(* Image-to-video generation workflow: the App component's state           *)
(* (selectedImage, status, result), its handlers (handleImageUpload,       *)
(* remove, startGeneration with ensureApiKey) and the two service          *)
(* functions generateDirectorPrompt and generateVeoVideo.                  *)
(*                                                                         *)
(* Every await of the code is a position (pc) of a run of startGeneration; *)
(* an action is the synchronous code that runs when the awaited promise    *)
(* settles, up to the next await.  The hosted services, the key dialog,    *)
(* the timer and the file reader are the environment: their outcomes are   *)
(* drawn with \E.                                                          *)
(*                                                                         *)
(* Strings that the code inspects (error messages, model text) are         *)
(* sequences of chunks; strings it only passes on are TLA+ strings.        *)
(*                                                                         *)
(* A behaviour runs in one of three scenarios, fixed by Init.              *)
(* "invocation": the trigger is activated once and the hosted services     *)
(* answer with their full range of values.  "interleaving": the trigger    *)
(* is activated up to MaxRuns times, the invocations overlap freely, and   *)
(* the hosted services answer with one value of each kind the workflow     *)
(* tells apart.  "settling": one activation, the same few values, polls    *)
(* up to MaxPolls; the scenario of the progress property.                  *)
(***************************************************************************)
EXTENDS Integers, Sequences, FiniteSets, TLC

\* ------------------------------------------------------------------ bounds

\* Trigger activations (runs of startGeneration) in one behaviour.
MaxRuns == 2
\* getVideosOperation fetches one run may issue before the model stops it
\* (scenario "invocation").
MaxPolls == 2
\* Length, in chunks, of the text the text model returns.
MaxTextLen == 3
\* FileReader loads that may be pending at once.
MaxReads == 1

\* ------------------------------------------------------------- JS values

\* A value that may be null or undefined (a missing property) is a sequence
\* of length 0 (missing) or 1 (present).
Missing == <<>>
Some(v) == << v >>
Get(o) == o[1]

RunIds == 1..MaxRuns

\* Uploaded files; base64 data and media type travel together.
Images == { [data |-> "X", mimeType |-> "image/jpeg"],
            [data |-> "Y", mimeType |-> "image/png"] }

\* process.env.API_KEY
ApiKey == "KEY"

\* ------------------------------------------------- strings the code reads

RECURSIVE SeqsUpTo(_, _)
SeqsUpTo(S, n) ==
  IF n = 0 THEN { <<>> }
  ELSE LET shorter == SeqsUpTo(S, n - 1)
       IN  shorter \cup { Append(s, c) : s \in { t \in shorter : Len(t) = n - 1 }, c \in S }

\* String.prototype.includes: needle occurs as a contiguous part of hay.
Includes(hay, needle) ==
  \E i \in 0..(Len(hay) - Len(needle)) :
     \A j \in 1..Len(needle) : hay[i + j] = needle[j]

\* The white space String.prototype.trim removes (the kind the texts here have).
WhiteSpace == { " " }

RECURSIVE TrimStart(_)
TrimStart(s) ==
  IF s # <<>> /\ Head(s) \in WhiteSpace THEN TrimStart(Tail(s)) ELSE s

RECURSIVE TrimEnd(_)
TrimEnd(s) ==
  IF s # <<>> /\ s[Len(s)] \in WhiteSpace
  THEN TrimEnd(SubSeq(s, 1, Len(s) - 1)) ELSE s

\* String.prototype.trim
Trim(s) == TrimEnd(TrimStart(s))

\* --------------------------------------------------- generateDirectorPrompt

FallbackPrompt ==
  << "Clean aerial camera footage, 5-second cinematic luxury commercial reveal of the building, invisible-drone stabilized flight path." >>

\* What response.text can be: missing, or a string of at most MaxTextLen chunks.
TextChunks == { " ", "a" }
AllResponseTexts == { Missing } \cup { Some(t) : t \in SeqsUpTo(TextChunks, MaxTextLen) }

\* response.text?.trim() || FALLBACK
DirectorPromptMutant(text) ==
  IF text = Missing THEN FallbackPrompt ELSE Trim(Get(text))

DirectorPrompt(text) ==
  LET trimmed == IF text = Missing THEN Missing ELSE Some(Trim(Get(text)))
  IN  IF trimmed = Missing \/ Get(trimmed) = <<>> THEN FallbackPrompt ELSE Get(trimmed)

\* ----------------------------------------------------------------- errors

NeedleNotFound == << "Requested", "entity", "was", "not", "found" >>
ApiKeyExpiredMessage == << "API_KEY_EXPIRED" >>
CaptureFailedMessage == << "Aerial", "capture", "failed." >>

\* Messages a hosted call's error can carry (Missing: no message property).
AllErrorMessages ==
  { Missing } \cup
  { Some(m) : m \in
    { <<>>,
      NeedleNotFound,
      << "404:" >> \o NeedleNotFound \o << "." >>,
      << "Requested", "entity", "was", "found" >>,
      << "Requested", "entity", "was", "not" >>,
      << "found", "Requested", "entity", "was", "not" >>,
      ApiKeyExpiredMessage,
      << "quota", "exceeded" >> } }

\* An error object: who created it and its message.
HostedError(message) == [ origin |-> "hosted", message |-> message ]
NewError(msg) == [ origin |-> "client", message |-> Some(msg) ]

\* catch block of the submission: error.message?.includes(...) ? new Error : error
SubmissionErrorMutant(error) ==
  IF error.message # Missing /\ Get(error.message) = NeedleNotFound
  THEN NewError(ApiKeyExpiredMessage) ELSE error

SubmissionError(error) ==
  IF error.message # Missing /\ Includes(Get(error.message), NeedleNotFound)
  THEN NewError(ApiKeyExpiredMessage) ELSE error

\* ------------------------------------------------------------- operations

\* Locators the video service hands out.
Locators == { "L1", "L2" }

\* A response whose first generated video has the given uri property.
ResponseWithUri(uri) ==
  Some([ generatedVideos |-> Some(<< [ video |-> Some([ uri |-> uri ]) ] >>) ])

\* operation.response of a finished job: every way the optional chain
\* response?.generatedVideos?.[0]?.video?.uri can end.
AllResponses ==
  { Missing,
    Some([ generatedVideos |-> Missing ]),
    Some([ generatedVideos |-> Some(<<>>) ]),
    Some([ generatedVideos |-> Some(<< [ video |-> Missing ] >>) ]),
    ResponseWithUri(Missing),
    ResponseWithUri(Some("")) }
  \cup { ResponseWithUri(Some(l)) : l \in Locators }

\* Operation handles: the done flag (possibly absent) and the response.
Pending == [ done : { Some(FALSE), Missing }, response : { Missing } ]
Finished(responses) == [ done : { Some(TRUE) }, response : responses ]

\* !operation.done
LoopContinuesMutant(operation) == TRUE
LoopContinuesNever(operation) == FALSE

LoopContinues(operation) == ~ (operation.done # Missing /\ Get(operation.done))

\* operation.response?.generatedVideos?.[0]?.video?.uri
DownloadLink(operation) ==
  IF operation.response = Missing THEN Missing
  ELSE LET videos == Get(operation.response).generatedVideos
       IN  IF videos = Missing THEN Missing
           ELSE IF Len(Get(videos)) = 0 THEN Missing
           ELSE LET video == Get(videos)[1].video
                IN  IF video = Missing THEN Missing ELSE Get(video).uri

\* !downloadLink
NoLinkMutant(link) == link = Missing

NoLink(link) == link = Missing \/ Get(link) = ""

\* `${downloadLink}&key=${process.env.API_KEY}`
FetchUrlMutant(link) == << link >>

FetchUrl(link) == << link, "&key=", ApiKey >>

\* URL.createObjectURL(blob): a fresh URL for the blob read from `url`;
\* a run creates at most one, so its id makes the URL unique.
ObjectUrl(url, r) == [ blobOf |-> url, serial |-> r ]

\* ------------------------------------------------------------ status texts

AnalyzingMessage == "Director composing 5s hero sequence..."
GeneratingMessage == "Generating cinematic master..."
CompletedMessage == "Cinema master ready."
KeyExpiredMessage == "Select your paid API key and retry."
InterruptedMessage == "Production interrupted."
InitializingMessage == "Initializing cinematic master sequence..."
StabilizingMessage == "Stabilizing aerial camera platform..."
PollMessages ==
  << "Smoothing cinematic drift...",
     "Matching reference lighting and shadows...",
     "Refining structural geometry lock...",
     "Eliminating drone artifacts...",
     "Optimizing 5-second hero reveal...",
     "Finalizing luxury commercial export..." >>

Steps == { "idle", "analyzing", "generating", "polling", "completed", "error" }

\* ------------------------------------------------------------------- state

VARIABLES
  scenario,       \* "invocation", "interleaving" or "settling"; never changes
  selectedImage,  \* useState: Missing or Some(image)
  status,         \* useState: [step, message]
  result,         \* useState: Missing or Some([videoUrl, directorPrompt])
  reads,          \* FileReader loads in progress (the files being read)
  runs            \* the invocations of startGeneration, by id

vars == << scenario, selectedImage, status, result, reads, runs >>

Scenarios == { "invocation", "interleaving", "settling" }

\* What the environment does in each scenario.
Activations == IF scenario = "interleaving" THEN MaxRuns ELSE 1
PollCap == IF scenario = "interleaving" THEN 1 ELSE MaxPolls
ResponseTexts ==
  IF scenario = "invocation" THEN AllResponseTexts ELSE { Some(<< "a" >>) }
ErrorMessages ==
  IF scenario = "invocation" THEN AllErrorMessages
  ELSE { Some(NeedleNotFound), Some(<< "quota", "exceeded" >>) }
HostedErrors == { HostedError(m) : m \in ErrorMessages }
Operations ==
  Pending \cup
  Finished(IF scenario = "invocation" THEN AllResponses
           ELSE { Missing, ResponseWithUri(Some("L1")) })
PollMessageChoices == IF scenario = "invocation" THEN 1..Len(PollMessages) ELSE { 1 }
\* response.ok of the download response.
ResponseOks == IF scenario = "interleaving" THEN { TRUE } ELSE BOOLEAN

\* An invocation of startGeneration that has not begun.
NoRun ==
  [ pc |-> "idle",
    from |-> "idle",        \* status.step when the trigger was activated
    image |-> Missing,      \* selectedImage of the render the handler closed over
    text |-> Missing,       \* response.text of generateContent
    prompt |-> Missing,     \* directorPrompt
    operation |-> Missing,  \* operation, once assigned
    polls |-> 0,            \* getVideosOperation calls issued
    pollsAfterDone |-> 0,   \* of those, issued after an operation with done was seen
    updates |-> 0,          \* onUpdate calls
    fetched |-> Missing,    \* the URL given to fetch, once the download is issued
    subErr |-> Missing,     \* the error of the generateVideos submission
    raised |-> Missing,     \* the error generateVeoVideo threw after a callback
    thrown |-> Missing,     \* the error that reached startGeneration's catch
    errAt |-> "none",       \* the call or statement that threw it
    contentCalls |-> 0,     \* generateContent requests issued
    submitCalls |-> 0,      \* generateVideos submissions issued
    promptImage |-> Missing, \* the image given to generateDirectorPrompt
    videoImage |-> Missing, \* the image given to generateVeoVideo
    responseOk |-> Missing, \* response.ok of the download, once fetch resolved
    dialogs |-> 0,          \* key dialogs opened by the catch block
    log |-> <<>> ]          \* the statuses this invocation gave to setStatus

Init ==
  /\ scenario \in Scenarios
  /\ selectedImage = Missing
  /\ status = [ step |-> "idle", message |-> "" ]
  /\ result = Missing
  /\ reads = <<>>
  /\ runs = [ r \in RunIds |-> NoRun ]

\* (msg) => setStatus(prev => ({ ...prev, message: msg }))
OnUpdateMutant(prev, msg) == [ step |-> "polling", message |-> msg ]

OnUpdate(prev, msg) == [ prev EXCEPT !.message = msg ]

\* setStatus({ step, message }) by invocation r, whose record becomes nr.
SetStatus(r, nr, step, message) ==
  LET st == [ step |-> step, message |-> message ]
  IN  /\ status' = st
      /\ runs' = [ runs EXCEPT ![r] = [ nr EXCEPT !.log = Append(@, st) ] ]

\* No setStatus: the status is st (the onUpdate calls applied), the record nr.
Keep(r, nr, st) ==
  /\ status' = st
  /\ runs' = [ runs EXCEPT ![r] = nr ]

\* ----------------------------------------------------------- user actions

\* <input type="file" onChange={handleImageUpload}>, rendered only while no
\* image is selected: a FileReader starts reading the chosen file.
HandleImageUpload ==
  /\ selectedImage = Missing
  /\ Len(reads) < MaxReads
  /\ \E file \in Images : reads' = Append(reads, file)
  /\ UNCHANGED << scenario, selectedImage, status, result, runs >>

\* reader.onload: setSelectedImage({...}); setResult(null)
ReaderOnload ==
  \E i \in 1..Len(reads) :
    /\ selectedImage' = Some(reads[i])
    /\ result' = Missing
    /\ reads' = SubSeq(reads, 1, i - 1) \o SubSeq(reads, i + 1, Len(reads))
    /\ UNCHANGED << scenario, status, runs >>

\* The remove button over the selected image: setSelectedImage(null)
RemoveImage ==
  /\ selectedImage # Missing
  /\ selectedImage' = Missing
  /\ UNCHANGED << scenario, status, result, reads, runs >>

\* disabled={!selectedImage || (step !== 'idle' && step !== 'completed' && step !== 'error')}
TriggerDisabled ==
  \/ selectedImage = Missing
  \/ status.step \notin { "idle", "completed", "error" }

\* onClick={startGeneration}: up to the first await, inside ensureApiKey
\* (window.aistudio.hasSelectedApiKey()).
StartGeneration ==
  /\ ~ TriggerDisabled
  /\ \E r \in 1..Activations :
       /\ runs[r].pc = "idle"
       /\ \A q \in 1..(r - 1) : runs[q].pc # "idle"
       /\ runs' = [ runs EXCEPT ![r] = [ NoRun EXCEPT !.pc = "hasKey",
                                                      !.from = status.step,
                                                      !.image = selectedImage ] ]
  /\ UNCHANGED << scenario, selectedImage, status, result, reads >>

\* ------------------------------------------------------------ startGeneration

\* selectedImage as startGeneration reads it: the value of the render whose
\* handler was activated, whatever setSelectedImage has done since.
ClosureImageMutant(r) == selectedImage
ClosureImage(r) == runs[r].image

\* ensureApiKey has returned (it returns true on every path): the try block
\* sets analyzing and calls generateDirectorPrompt, which awaits generateContent.
Analyze(r) ==
  SetStatus(r, [ runs[r] EXCEPT !.pc = "prompt",
                                !.contentCalls = @ + 1,
                                !.promptImage = ClosureImage(r) ],
            "analyzing", AnalyzingMessage)

\* await window.aistudio.hasSelectedApiKey() settles.
HasKeySettles(r) ==
  /\ runs[r].pc = "hasKey"
  /\ UNCHANGED << scenario, selectedImage, result, reads >>
  /\ \/ \* resolves true (or throws with window.aistudio?.openSelectKey not
        \* there: the catch block returns true at once)
        Analyze(r)
     \/ \* resolves false: await window.aistudio.openSelectKey()
        Keep(r, [ runs[r] EXCEPT !.pc = "openKey" ], status)
     \/ \* throws or rejects; the catch block opens the dialog
        Keep(r, [ runs[r] EXCEPT !.pc = "openKeyCatch" ], status)

\* The key dialog opened by ensureApiKey settles.
OpenKeySettles(r) ==
  /\ UNCHANGED << scenario, selectedImage, result, reads >>
  /\ \/ \* try block: resolves
        /\ runs[r].pc = "openKey"
        /\ Analyze(r)
     \/ \* try block: rejects; the catch block opens the dialog again
        /\ runs[r].pc = "openKey"
        /\ Keep(r, [ runs[r] EXCEPT !.pc = "openKeyCatch" ], status)
     \/ \* catch block: openSelectKey().catch(() => {}) resolves either way
        /\ runs[r].pc = "openKeyCatch"
        /\ Analyze(r)

\* error.message === "API_KEY_EXPIRED"
IsKeyExpiredMutant(error) ==
  \/ error.message = Some(ApiKeyExpiredMessage)
  \/ error.message # Missing /\ Includes(Get(error.message), NeedleNotFound)
IsKeyExpired(error) == error.message = Some(ApiKeyExpiredMessage)

\* catch (error) of startGeneration, entered with run record nr and status st.
CatchMutant(r, nr, st, error) ==
  Keep(r, [ nr EXCEPT !.pc = "prompt", !.contentCalls = @ + 1 ], st)

Catch(r, nr, st, error) ==
  IF IsKeyExpired(error)
  THEN \* await window.aistudio.openSelectKey()
       Keep(r, [ nr EXCEPT !.pc = "keyDialog", !.thrown = Some(error),
                           !.dialogs = @ + 1 ], st)
  ELSE SetStatus(r, [ nr EXCEPT !.pc = "failed", !.thrown = Some(error) ],
                 "error", InterruptedMessage)

\* generateContent settles.
PromptSettles(r) ==
  /\ runs[r].pc = "prompt"
  /\ UNCHANGED << scenario, selectedImage, result, reads >>
  /\ \/ \* resolves: setStatus generating, then generateVeoVideo up to the
        \* await of generateVideos (its first onUpdate included)
        \E text \in ResponseTexts :
          LET generating == [ step |-> "generating", message |-> GeneratingMessage ]
          IN  Keep(r, [ runs[r] EXCEPT !.pc = "submit",
                                       !.text = text,
                                       !.prompt = Some(DirectorPrompt(text)),
                                       !.updates = 1,
                                       !.submitCalls = @ + 1,
                                       !.videoImage = ClosureImage(r),
                                       !.log = Append(@, generating) ],
                   OnUpdate(generating, InitializingMessage))
     \/ \* rejects
        \E error \in HostedErrors :
          Catch(r, [ runs[r] EXCEPT !.errAt = "prompt" ], status, error)

\* After the poll loop: extract the locator, then fetch it or throw. The
\* throw ends the promise job that ran the callback; the catch block of
\* startGeneration runs in a later job, once `await generateVeoVideo` resumes.
Finish(r, nr, st) ==
  LET downloadLink == DownloadLink(Get(nr.operation))
  IN  IF NoLink(downloadLink)
      THEN Keep(r, [ nr EXCEPT !.pc = "throwing",
                               !.errAt = "locator",
                               !.raised = Some(NewError(CaptureFailedMessage)) ], st)
      ELSE Keep(r, [ nr EXCEPT !.pc = "download",
                               !.fetched = Some(FetchUrl(Get(downloadLink))) ], st)

\* operation = await ...; onUpdate(msg); then the loop test and what follows.
ObserveMutant(r, operation, msg) ==
  LET nr == [ runs[r] EXCEPT !.operation = Some(operation),
                             !.updates = @ + (IF LoopContinues(operation) THEN 1 ELSE 0) ]
      st == IF LoopContinues(operation) THEN OnUpdate(status, msg) ELSE status
  IN  IF LoopContinues(operation)
      THEN Keep(r, [ nr EXCEPT !.pc = "sleep" ], st)
      ELSE Finish(r, nr, st)

Observe(r, operation, msg) ==
  LET nr == [ runs[r] EXCEPT !.operation = Some(operation), !.updates = @ + 1 ]
      st == OnUpdate(status, msg)
  IN  IF LoopContinues(operation)
      THEN \* await new Promise(resolve => setTimeout(resolve, 10000))
           Keep(r, [ nr EXCEPT !.pc = "sleep" ], st)
      ELSE Finish(r, nr, st)

\* generateVideos settles.
SubmitSettles(r) ==
  /\ runs[r].pc = "submit"
  /\ UNCHANGED << scenario, selectedImage, result, reads >>
  /\ \/ \E operation \in Operations : Observe(r, operation, StabilizingMessage)
     \/ \E error \in HostedErrors :
          Catch(r, [ runs[r] EXCEPT !.subErr = Some(error), !.errAt = "submit" ],
                status, SubmissionError(error))

\* An operation with done = true has been assigned to `operation`.
DoneSeen(run) == run.operation # Missing /\ Get(run.operation).done = Some(TRUE)

\* The delay of one loop iteration ends: getVideosOperation is called.
TimerFires(r) ==
  /\ runs[r].pc = "sleep"
  /\ runs[r].polls < PollCap
  /\ runs' = [ runs EXCEPT ![r] = [ @ EXCEPT !.pc = "poll",
                                             !.polls = @ + 1,
                                             !.pollsAfterDone =
                                                @ + (IF DoneSeen(runs[r]) THEN 1 ELSE 0) ] ]
  /\ UNCHANGED << scenario, selectedImage, status, result, reads >>

\* getVideosOperation settles.
PollSettles(r) ==
  /\ runs[r].pc = "poll"
  /\ UNCHANGED << scenario, selectedImage, result, reads >>
  /\ \/ \E operation \in Operations, i \in PollMessageChoices :
          Observe(r, operation, PollMessages[i])
     \/ \E error \in HostedErrors :
          Catch(r, [ runs[r] EXCEPT !.errAt = "poll" ], status, error)

\* fetch(`${downloadLink}&key=...`) settles.
DownloadSettlesMutant(r) ==
  /\ runs[r].pc = "download"
  /\ UNCHANGED << scenario, selectedImage, result, reads >>
  /\ \/ \E ok \in ResponseOks :
          IF ok
          THEN Keep(r, [ runs[r] EXCEPT !.pc = "blob", !.responseOk = Some(ok) ], status)
          ELSE Catch(r, [ runs[r] EXCEPT !.responseOk = Some(ok), !.errAt = "status" ],
                     status, NewError(<< "Download", "failed." >>))
     \/ \E error \in HostedErrors :
          Catch(r, [ runs[r] EXCEPT !.errAt = "download" ], status, error)

DownloadSettles(r) ==
  /\ runs[r].pc = "download"
  /\ UNCHANGED << scenario, selectedImage, result, reads >>
  /\ \/ \* resolves (response.ok is not read): await response.blob()
        \E ok \in ResponseOks :
          Keep(r, [ runs[r] EXCEPT !.pc = "blob", !.responseOk = Some(ok) ], status)
     \/ \E error \in HostedErrors :
          Catch(r, [ runs[r] EXCEPT !.errAt = "download" ], status, error)

\* response.blob() settles.
BlobSettles(r) ==
  /\ runs[r].pc = "blob"
  /\ UNCHANGED << scenario, selectedImage, reads >>
  /\ \/ \* resolves: return URL.createObjectURL(blob); setResult; setStatus completed
        /\ result' = Some([ videoUrl |-> ObjectUrl(Get(runs[r].fetched), r),
                            directorPrompt |-> Get(runs[r].prompt) ])
        /\ SetStatus(r, [ runs[r] EXCEPT !.pc = "completed" ], "completed", CompletedMessage)
     \/ /\ UNCHANGED result
        /\ \E error \in HostedErrors :
             Catch(r, [ runs[r] EXCEPT !.errAt = "blob" ], status, error)

\* `await generateVeoVideo(...)` resumes with the rejection: the catch block.
GenerationRejects(r) ==
  /\ runs[r].pc = "throwing"
  /\ UNCHANGED << scenario, selectedImage, result, reads >>
  /\ Catch(r, runs[r], status, Get(runs[r].raised))

\* The key dialog opened by the catch block settles.
KeyDialogSettles(r) ==
  /\ runs[r].pc = "keyDialog"
  /\ UNCHANGED << scenario, selectedImage, result, reads >>
  /\ \/ \* resolves
        SetStatus(r, [ runs[r] EXCEPT !.pc = "failed" ], "error", KeyExpiredMessage)
     \/ \* rejects: startGeneration's promise rejects, nothing else runs
        Keep(r, [ runs[r] EXCEPT !.pc = "rejected" ], status)

Next ==
  \/ HandleImageUpload
  \/ ReaderOnload
  \/ RemoveImage
  \/ StartGeneration
  \/ \E r \in RunIds : HasKeySettles(r)
  \/ \E r \in RunIds : OpenKeySettles(r)
  \/ \E r \in RunIds : PromptSettles(r)
  \/ \E r \in RunIds : SubmitSettles(r)
  \/ \E r \in RunIds : TimerFires(r)
  \/ \E r \in RunIds : PollSettles(r)
  \/ \E r \in RunIds : DownloadSettles(r)
  \/ \E r \in RunIds : BlobSettles(r)
  \/ \E r \in RunIds : GenerationRejects(r)
  \/ \E r \in RunIds : KeyDialogSettles(r)

\* Every scenario.
Spec == Init /\ [][Next]_vars

\* One invocation of startGeneration, the hosted services unrestricted.
InitInvocation == Init /\ scenario = "invocation"
SpecInvocation == InitInvocation /\ [][Next]_vars

\* One invocation (scenario "settling") in which every hosted call settles and every delay of the
\* poll loop ends: the promises of generateContent, generateVideos,
\* getVideosOperation, fetch and response.blob(), the 10 s timer and the
\* job that resumes startGeneration are served by the event loop. The key dialog is the user's to settle, so it
\* gets no fairness.
HostedCallsSettle ==
  \A r \in RunIds :
    /\ WF_vars(PromptSettles(r))
    /\ WF_vars(SubmitSettles(r))
    /\ WF_vars(TimerFires(r))
    /\ WF_vars(PollSettles(r))
    /\ WF_vars(DownloadSettles(r))
    /\ WF_vars(BlobSettles(r))
    /\ WF_vars(GenerationRejects(r))
InitSettling == Init /\ scenario = "settling"
SpecLive == InitSettling /\ [][Next]_vars /\ HostedCallsSettle

\* ------------------------------------------------------------------ claims

Last(seq) == seq[Len(seq)]

\* The values status.step has been given by invocation r, after the initial idle.
StepsTaken(r) == << "idle" >> \o [ i \in 1..Len(runs[r].log) |-> runs[r].log[i].step ]

\* The positions at which an invocation has a hosted call in flight.
HostedPcs == { "prompt", "submit", "sleep", "poll", "download", "blob" }

\* The uri of a finished operation that carries a locator.
LocatorOf(operation) == Get(Get(Get(Get(operation.response).generatedVideos)[1].video).uri)

\* C1: in a single generation whose steps all succeed (prompt P, a submission,
\* polls until done with locator L, the download), startGeneration ends with
\* result = { videoUrl made from L, directorPrompt P } and status.step has
\* taken exactly idle, analyzing, generating, completed, in that order.
C1_EndToEnd ==
  [][ /\ (scenario = "invocation" => status.step = Last(StepsTaken(1)))'
      /\ \A r \in RunIds :
           (scenario = "invocation" /\ runs[r].pc = "blob" /\ runs'[r].pc = "completed")
           => /\ result' = Some([ videoUrl |->
                                    [ blobOf |-> << LocatorOf(Get(runs[r].operation)),
                                                    "&key=", ApiKey >>,
                                      serial |-> r ],
                                  directorPrompt |-> Get(runs[r].prompt) ])
              /\ Get(runs[r].prompt) # <<>>
              /\ StepsTaken(r)' = << "idle", "analyzing", "generating", "completed" >>
              /\ status'.step = "completed" ]_vars

C1_Witness ==
  /\ scenario = "invocation"
  /\ runs[1].pc = "completed"
  /\ runs[1].polls >= 1
  /\ status.step = "completed"
  /\ result # Missing
  /\ Get(result).videoUrl.blobOf[1] = "L2"
  /\ Get(result).directorPrompt = << "a", " ", "a" >>

\* C2: every finished iteration of the poll loop has called the progress
\* callback, and once an operation with done = true has been observed the loop
\* is left and getVideosOperation is not called again.
C2_PollLoop ==
  \A r \in RunIds :
    /\ runs[r].pollsAfterDone = 0
    /\ DoneSeen(runs[r]) => runs[r].pc \notin { "sleep", "poll" }
    /\ runs[r].pc = "sleep" => runs[r].updates >= 2 + runs[r].polls
    /\ runs[r].pc = "poll" => runs[r].updates >= 2 + (runs[r].polls - 1)

C2_Witness ==
  \E r \in RunIds :
    /\ runs[r].pc = "download"
    /\ runs[r].polls = 2
    /\ DoneSeen(runs[r])
    /\ runs[r].updates = 4

\* The message has "Requested entity was not found" somewhere in it.
HasNeedle(message) ==
  /\ message # Missing
  /\ \E pre, post \in 0..Len(Get(message)) :
       /\ pre + Len(NeedleNotFound) + post = Len(Get(message))
       /\ SubSeq(Get(message), pre + 1, pre + Len(NeedleNotFound)) = NeedleNotFound

\* C3: a submission error is replaced by a new error with message
\* "API_KEY_EXPIRED" exactly when its message contains "Requested entity was
\* not found"; any other submission error, one without a message included, is
\* rethrown as it is.
C3_SubmissionErrors ==
  \A r \in RunIds :
    runs[r].subErr # Missing =>
      LET error == Get(runs[r].subErr)
      IN  /\ runs[r].thrown # Missing
          /\ HasNeedle(error.message) =>
               /\ Get(runs[r].thrown) = [ origin |-> "client",
                                          message |-> Some(<< "API_KEY_EXPIRED" >>) ]
               /\ Get(runs[r].thrown) # error
          /\ ~ HasNeedle(error.message) => Get(runs[r].thrown) = error

C3_Witness ==
  \E r \in RunIds :
    /\ runs[r].subErr = Some(HostedError(Some(<< "404:" >> \o NeedleNotFound \o << "." >>)))
    /\ runs[r].thrown # Missing
    /\ Get(runs[r].thrown).origin = "client"

\* C4: a submission error with message "Requested entity was not found" ends
\* with status step = error and the credential-expired message, whatever the
\* key dialog opened by the error handler does.
C4_KeyExpiredStatus ==
  \A r \in RunIds :
    ( /\ scenario = "invocation"
      /\ runs[r].subErr = Some(HostedError(Some(NeedleNotFound)))
      /\ runs[r].pc \in { "failed", "rejected" } )
    => status = [ step |-> "error", message |-> "Select your paid API key and retry." ]

\* The responses of a finished operation that carry a locator.
WithLocator == { ResponseWithUri(Some(l)) : l \in Locators }

\* C5: an operation that is done and carries no locator makes generateVeoVideo
\* throw the capture-failed error; no download is fetched and no object URL
\* (hence no result) is made by that invocation.
C5_NoLocator ==
  \A r \in RunIds :
    ( /\ DoneSeen(runs[r])
      /\ Get(runs[r].operation).response \notin WithLocator )
    => /\ runs[r].pc \in { "throwing", "failed" }
       /\ runs[r].raised = Some([ origin |-> "client",
                                  message |-> Some(<< "Aerial", "capture", "failed." >>) ])
       /\ runs[r].pc = "failed" => runs[r].thrown = runs[r].raised
       /\ runs[r].fetched = Missing
       /\ result # Missing => Get(result).videoUrl.serial # r

C5_Witness ==
  \E r \in RunIds :
    /\ runs[r].pc = "failed"
    /\ runs[r].operation = Some([ done |-> Some(TRUE), response |-> ResponseWithUri(Some("")) ])
    /\ runs[r].polls = 1

\* A chunk of white space.
Space(chunk) == chunk = " "

\* The text is missing, empty or white space only.
Blank(text) == text = Missing \/ \A i \in 1..Len(Get(text)) : Space(Get(text)[i])

\* C6: whatever text the text model returns, the director prompt is a
\* non-empty string: the text without its leading and trailing white space,
\* or the fallback when there is nothing else; the workflow goes on to the
\* submission, and fails only on an error thrown later.
C6_PromptNonEmpty ==
  \A r \in RunIds :
    runs[r].prompt # Missing =>
      LET prompt == Get(runs[r].prompt)
          text == runs[r].text
      IN  /\ Len(prompt) > 0
          /\ Blank(text) => prompt = FallbackPrompt
          /\ ~ Blank(text) =>
               /\ ~ Space(Head(prompt)) /\ ~ Space(Last(prompt))
               /\ \E pre, post \in 0..Len(Get(text)) :
                    /\ pre + Len(prompt) + post = Len(Get(text))
                    /\ SubSeq(Get(text), pre + 1, pre + Len(prompt)) = prompt
                    /\ \A i \in (1..pre) \cup ((Len(Get(text)) - post + 1)..Len(Get(text))) :
                         Space(Get(text)[i])
          /\ runs[r].thrown = Missing
             => runs[r].pc \in HostedPcs \cup { "throwing", "completed" }

C6_Witness ==
  \E r \in RunIds :
    /\ runs[r].pc = "completed"
    /\ runs[r].text = Some(<< " ", " " >>)
    /\ result # Missing
    /\ Get(result).directorPrompt = FallbackPrompt

\* C7: a later invocation of startGeneration has no hosted call in flight
\* unless every earlier one has reached completed or error.
C7_OneAtATime ==
  \A r1, r2 \in RunIds :
    (r1 < r2 /\ runs[r2].pc \in HostedPcs) => runs[r1].pc \in { "completed", "failed" }

\* C8: a generation started from completed or error holds no result from the
\* moment it sets analyzing until it succeeds itself.
C8_ResultDiscarded ==
  \A r \in RunIds :
    ( /\ runs[r].from \in { "completed", "error" }
      /\ runs[r].pc \in HostedPcs \cup { "throwing", "keyDialog", "failed", "rejected" } )
    => result = Missing

\* C9: status.step only moves forward along idle, analyzing, generating,
\* completed | error; completed and error are left only for analyzing; it
\* never returns to idle and is never polling.
C9_StepForward ==
  [][ \/ status'.step = status.step
      \/ << status.step, status'.step >> \in
           { << "idle", "analyzing" >>,
             << "analyzing", "generating" >>, << "analyzing", "error" >>,
             << "generating", "completed" >>, << "generating", "error" >>,
             << "completed", "analyzing" >>, << "error", "analyzing" >> } ]_vars

\* C10: once an invocation's error handler has finished, the invocation has
\* set step = error, with the generic message unless the error is the
\* credential-expired signal, and the step is no longer analyzing or generating.
C10_ErrorsBecomeStatus ==
  \A r \in RunIds :
    (runs[r].thrown # Missing /\ runs[r].pc \in { "failed", "rejected" })
    => /\ runs[r].log # <<>>
       /\ Last(runs[r].log) =
            [ step |-> "error",
              message |-> IF Get(runs[r].thrown).message = Some(<< "API_KEY_EXPIRED" >>)
                          THEN "Select your paid API key and retry."
                          ELSE "Production interrupted." ]
       /\ scenario = "invocation" => status.step \notin { "analyzing", "generating" }

\* C11: whenever status.step is completed a Generation Result is held, under
\* any sequence of generations, image removals and image uploads.
C11_CompletedHoldsResult ==
  status.step = "completed" => result # Missing

\* A hosted call of invocation r has thrown instead of returning.
HostedCallThrew(r) ==
  runs[r].thrown # Missing /\ runs[r].errAt \in { "prompt", "submit", "poll", "download", "blob" }

\* C12: the poll loop is left only when a fetched operation reports done or a
\* poll fetch throws, and while every fetched operation reports not done the
\* invocation stays in generating, whatever the number of polls; once an
\* operation reporting done has been fetched, the invocation reaches
\* completed or error unless a hosted call throws instead of returning.
C12_LoopEnds ==
  /\ [](\A r \in RunIds :
          /\ runs[r].pc \in { "download", "blob", "completed" } => DoneSeen(runs[r])
          /\ runs[r].errAt \in { "locator", "download", "blob" } => DoneSeen(runs[r])
          /\ (runs[r].thrown # Missing /\ ~ DoneSeen(runs[r]))
             => runs[r].errAt \in { "prompt", "submit", "poll" }
          /\ runs[r].pc \in { "sleep", "poll" }
             => /\ ~ DoneSeen(runs[r])
                /\ Last(runs[r].log).step = "generating"
                /\ status.step = "generating")
  /\ \A r \in RunIds :
       DoneSeen(runs[r]) ~> ( \/ runs[r].pc = "completed" /\ status.step = "completed"
                              \/ runs[r].pc = "failed" /\ status.step = "error"
                              \/ HostedCallThrew(r) )

C12_Witness ==
  \E r \in RunIds :
    /\ runs[r].pc = "sleep"
    /\ runs[r].polls = MaxPolls
    /\ status.step = "generating"

\* The hosted calls invocation r has issued: generateContent, generateVideos,
\* getVideosOperation and the download.
HostedCalls(r) ==
  runs[r].contentCalls + runs[r].submitCalls + runs[r].polls
  + (IF runs[r].fetched # Missing THEN 1 ELSE 0)

\* C13: nothing is retried: an invocation issues one generateContent request
\* once ensureApiKey has returned, never a second, and at most one
\* generateVideos submission, that one only after the prompt has been
\* received; once it has thrown or set error it issues no hosted call.
C13_NoRetry ==
  [][ \A r \in RunIds :
        /\ runs'[r].contentCalls =
             (IF runs'[r].pc \in { "idle", "hasKey", "openKey", "openKeyCatch" } THEN 0 ELSE 1)
        /\ runs'[r].submitCalls = (IF runs'[r].prompt # Missing THEN 1 ELSE 0)
        /\ ( \/ runs[r].thrown # Missing
             \/ runs[r].pc \in { "throwing", "failed", "rejected", "keyDialog" } )
           => HostedCalls(r)' = HostedCalls(r)
        /\ (scenario = "invocation" /\ status.step = "error")
           => HostedCalls(r)' = HostedCalls(r) ]_vars

C13_Witness ==
  \E r \in RunIds :
    /\ runs[r].pc = "failed"
    /\ runs[r].errAt = "poll"
    /\ status.step = "error"
    /\ runs[r].contentCalls = 1
    /\ runs[r].submitCalls = 1
    /\ HostedCalls(r) = 2 + MaxPolls

\* The string the latest progress callback of an invocation at position pc
\* was called with, as generateVeoVideo writes them.
StringsAt(pc) ==
  IF pc = "prompt" THEN { "Initializing cinematic master sequence..." }
  ELSE IF pc = "submit" THEN { "Stabilizing aerial camera platform..." }
  ELSE { "Smoothing cinematic drift...",
         "Matching reference lighting and shadows...",
         "Refining structural geometry lock...",
         "Eliminating drone artifacts...",
         "Optimizing 5-second hero reveal...",
         "Finalizing luxury commercial export..." }

\* C14: a progress callback replaces status.message with its string and
\* leaves status.step, result and the selected image as they were; from the
\* workflow setting generating until generateVeoVideo returns or throws,
\* status.step is generating.
C14_CallbackFrame ==
  [][ \A r \in RunIds :
        /\ (runs'[r].updates = runs[r].updates + 1 /\ runs'[r].thrown = Missing)
           => /\ status'.message \in StringsAt(runs[r].pc)
              /\ status'.step = (IF runs[r].pc = "prompt" THEN "generating" ELSE status.step)
              /\ result' = result
              /\ selectedImage' = selectedImage
        /\ (scenario = "invocation"
            /\ runs'[r].pc \in { "submit", "sleep", "poll", "download", "blob" })
           => status'.step = "generating" ]_vars

C14_Witness ==
  \E r \in RunIds :
    /\ runs[r].pc = "sleep"
    /\ runs[r].updates = 3
    /\ status = [ step |-> "generating", message |-> "Eliminating drone artifacts..." ]
    /\ result = Missing
    /\ selectedImage = Missing

\* C15: within one generation the image (bytes and media type) given to
\* generateVeoVideo is the one given to generateDirectorPrompt, and both are
\* the image that was selected when the trigger was activated, whatever the
\* user has removed or loaded since.
C15_SameImage ==
  [][ \A r \in RunIds :
        /\ (runs[r].pc = "idle" /\ runs'[r].pc # "idle")
           => /\ selectedImage # Missing
              /\ runs'[r].image = selectedImage
        /\ runs[r].pc # "idle" => runs'[r].image = runs[r].image
        /\ runs'[r].contentCalls = 1
           => /\ runs'[r].promptImage # Missing
              /\ runs'[r].promptImage = runs'[r].image
        /\ runs'[r].submitCalls = 1
           => /\ runs'[r].videoImage # Missing
              /\ runs'[r].videoImage = runs'[r].promptImage
              /\ runs'[r].videoImage = runs'[r].image ]_vars

C15_Witness ==
  \E r \in RunIds :
    /\ runs[r].pc = "completed"
    /\ runs[r].promptImage = Some([ data |-> "X", mimeType |-> "image/jpeg" ])
    /\ runs[r].videoImage = Some([ data |-> "X", mimeType |-> "image/jpeg" ])
    /\ selectedImage = Some([ data |-> "Y", mimeType |-> "image/png" ])

\* C16: the credential-expired translation is applied to the submission
\* only: an error whose message contains "Requested entity was not found",
\* thrown by a getVideosOperation fetch, by the download or by the blob read,
\* reaches the workflow as it was thrown, and the workflow sets error with
\* 'Production interrupted.' without opening the key dialog.
C16_PollErrorsRaw ==
  \A r \in RunIds :
    ( /\ runs[r].errAt \in { "poll", "download", "blob" }
      /\ HasNeedle(Get(runs[r].thrown).message) )
    => /\ Get(runs[r].thrown).origin = "hosted"
       /\ Get(runs[r].thrown).message # Some(<< "API_KEY_EXPIRED" >>)
       /\ runs[r].subErr = Missing
       /\ runs[r].dialogs = 0
       /\ runs[r].pc = "failed"
       /\ Last(runs[r].log) = [ step |-> "error", message |-> "Production interrupted." ]
       /\ scenario = "invocation"
          => status = [ step |-> "error", message |-> "Production interrupted." ]

C16_Witness ==
  \E r \in RunIds :
    /\ runs[r].errAt = "poll"
    /\ runs[r].polls = 2
    /\ Get(runs[r].thrown).message =
         Some(<< "404:", "Requested", "entity", "was", "not", "found", "." >>)
    /\ runs[r].pc = "failed"
    /\ status.message = "Production interrupted."

\* The image the held result was generated from: the one the invocation that
\* set it had closed over.
ResultImage == runs[Get(result).videoUrl.serial].image

\* C17: whenever a result is held and an image is selected, the result was
\* generated from the selected image, under any interleaving of image
\* removal, image upload and the completion of a generation in flight.
C17_ResultOfSelectedImage ==
  (result # Missing /\ selectedImage # Missing) => ResultImage = selectedImage

\* The getVideosOperation fetches of invocation r that have returned.
PollsReturned(r) ==
  runs[r].polls - (IF runs[r].pc = "poll" \/ runs[r].errAt = "poll" THEN 1 ELSE 0)

\* C18: generateVeoVideo calls the progress callback once before the
\* submission; if the submission throws, that is the only call; if it
\* returns, a second call precedes any poll and one more follows every
\* getVideosOperation fetch that returns, the one reporting done included:
\* 2 + k calls for k polls, and none after the invocation returned or threw.
C18_CallbackCount ==
  [][ \A r \in RunIds :
        /\ runs'[r].updates =
             (IF runs'[r].submitCalls = 0 THEN 0
              ELSE IF runs'[r].pc = "submit" \/ runs'[r].errAt = "submit" THEN 1
              ELSE 2 + PollsReturned(r)')
        /\ runs'[r].updates \in { runs[r].updates, runs[r].updates + 1 }
        /\ runs'[r].updates # runs[r].updates
           => runs[r].pc \in { "prompt", "submit", "poll" }
        /\ (runs[r].pc = "poll" /\ runs'[r].pc # "poll" /\ runs'[r].errAt # "poll")
           => runs'[r].updates = runs[r].updates + 1 ]_vars

C18_Witness ==
  \E r \in RunIds :
    /\ runs[r].pc = "completed"
    /\ runs[r].polls = 2
    /\ runs[r].updates = 4

\* C19: generateVeoVideo does not look at the outcome of the download: once
\* fetch has resolved, with a success response or not, the blob is read, and
\* once that has resolved the object URL is returned and the workflow holds
\* the result and sets completed; after the download was issued, only a
\* throw of fetch or of the blob read leads to the error handler.
C19_DownloadUnchecked ==
  [][ \A r \in RunIds :
        /\ (runs[r].pc = "download" /\ runs'[r].pc # "download")
           => \/ /\ runs'[r].pc = "blob"
                 /\ runs'[r].responseOk # Missing
                 /\ runs'[r].thrown = Missing
              \/ /\ runs'[r].errAt = "download"
                 /\ runs'[r].responseOk = Missing
                 /\ Get(runs'[r].thrown).origin = "hosted"
        /\ (runs[r].pc = "blob" /\ runs'[r].pc # "blob")
           => \/ /\ runs'[r].pc = "completed"
                 /\ runs'[r].thrown = Missing
                 /\ result' = Some([ videoUrl |-> [ blobOf |-> Get(runs[r].fetched),
                                                    serial |-> r ],
                                     directorPrompt |-> Get(runs[r].prompt) ])
                 /\ status' = [ step |-> "completed", message |-> "Cinema master ready." ]
              \/ /\ runs'[r].errAt = "blob"
                 /\ Get(runs'[r].thrown).origin = "hosted" ]_vars

C19_Witness ==
  \E r \in RunIds :
    /\ runs[r].pc = "completed"
    /\ runs[r].responseOk = Some(FALSE)
    /\ status.step = "completed"
    /\ result # Missing
    /\ Get(result).videoUrl.serial = r

====
